---------------------------- MODULE Spec2Model ----------------------------
(***************************************************************************)
(* Model of src/src/list-localhosts.tsx (Raycast "Localhost Manager").     *)
(*                                                                         *)
(* Strings are sequences of one-character strings, so that split,          *)
(* lastIndexOf, slice, Number(...) and template strings are computed the   *)
(* way the code computes them.  A JavaScript number is the record          *)
(* [nan, m, e] standing for m / 10^e (normalised), or NaN.                 *)
(* An optional value (a field that may be undefined) is <<>> or <<v>>.     *)
(***************************************************************************)
EXTENDS Integers, Sequences, FiniteSets, TLC

VARIABLES
  listeners,        \* useState<Listener[]>: the published listener collection
  dockerAvailable,  \* useState<boolean | null>: None is null
  containers,       \* useState<DockerContainer[]>: the published containers
  isLoading,        \* useState(true)
  optionsMode,      \* useState<OptionsMode>("all")
  cycle,            \* the refresh() calls in flight: position and locals
  started,          \* how many refresh() calls were made so far
  listenersFrom,    \* which refresh() call made the last setListeners
  containersFrom,   \* which refresh() call made the last setContainers
  kill,             \* the killByPort call in flight, its signal calls, its result
  decoder,          \* one call of parseAddressPort: argument and return value
  parser,           \* one call of getListeningByProto: stdout and records
  dockerPorts       \* one call of parseDockerPorts: argument and return value

vars == <<listeners, dockerAvailable, containers, isLoading, optionsMode, cycle,
          started, listenersFrom, containersFrom, kill, decoder, parser,
          dockerPorts>>

uiVars == <<listeners, dockerAvailable, containers, isLoading, optionsMode,
            listenersFrom, containersFrom>>
refreshVars == <<uiVars, cycle, started>>

(***************************************************************************)
(* Bounds of the model.                                                    *)
(***************************************************************************)
MaxTokenLen == 4      \* longest name token enumerated for parseAddressPort
MaxLines == 3         \* longest tagged-line input enumerated for the parser
MaxCycles == 2        \* refresh() calls in flight at the same time
MaxStarts == 3        \* refresh() calls in one behaviour
MaxEnrichStarts == 2  \* refresh() calls in one behaviour of SpecEnrich
MaxPortPieces == 4    \* longest Ports field enumerated for parseDockerPorts, in pieces
MaxKillLines == 3     \* longest owner-resolution stdout enumerated
MaxNames == 6         \* most name lines of one record in the tool outputs

(***************************************************************************)
(* Strings                                                                 *)
(***************************************************************************)
None == <<>>
Some(v) == <<v>>
IsSome(o) == o # <<>>
Val(o) == o[1]

Digits == {"0", "1", "2", "3", "4", "5", "6", "7", "8", "9"}

DigitVal(c) ==
  CASE c = "0" -> 0 [] c = "1" -> 1 [] c = "2" -> 2 [] c = "3" -> 3
    [] c = "4" -> 4 [] c = "5" -> 5 [] c = "6" -> 6 [] c = "7" -> 7
    [] c = "8" -> 8 [] c = "9" -> 9

DigitChar(d) ==
  CASE d = 0 -> "0" [] d = 1 -> "1" [] d = 2 -> "2" [] d = 3 -> "3"
    [] d = 4 -> "4" [] d = 5 -> "5" [] d = 6 -> "6" [] d = 7 -> "7"
    [] d = 8 -> "8" [] d = 9 -> "9"

\* s.slice(from) / s.slice(from, to) with 0-based, in-range indices
Slice(s, from, to) == SubSeq(s, from + 1, to)
SliceFrom(s, from) == SubSeq(s, from + 1, Len(s))

\* 0-based index of the first / last occurrence of character c, or -1
IndexOf(s, c) ==
  IF \E i \in 1..Len(s) : s[i] = c
  THEN (CHOOSE i \in 1..Len(s) : s[i] = c /\ \A j \in 1..(i - 1) : s[j] # c) - 1
  ELSE -1

LastIndexOf(s, c) ==
  IF \E i \in 1..Len(s) : s[i] = c
  THEN (CHOOSE i \in 1..Len(s) : s[i] = c /\ \A j \in (i + 1)..Len(s) : s[j] # c) - 1
  ELSE -1

\* s.includes("->")
IncludesArrow(s) == \E i \in 1..(Len(s) - 1) : s[i] = "-" /\ s[i + 1] = ">"

\* s.startsWith(p)
StartsWith(s, p) == Len(s) >= Len(p) /\ SubSeq(s, 1, Len(p)) = p

\* s.split(" ")[0]
FirstSpaceField(s) ==
  IF IndexOf(s, " ") = -1 THEN s ELSE Slice(s, 0, IndexOf(s, " "))

\* s.trim() (the only white space of the model's alphabet is the space)
RECURSIVE TrimLeft(_)
TrimLeft(s) == IF s # <<>> /\ s[1] = " " THEN TrimLeft(Tail(s)) ELSE s
RECURSIVE TrimRight(_)
TrimRight(s) ==
  IF s # <<>> /\ s[Len(s)] = " " THEN TrimRight(SubSeq(s, 1, Len(s) - 1)) ELSE s
Trim(s) == TrimRight(TrimLeft(s))

(***************************************************************************)
(* JavaScript numbers: Number(string) and String(number)                   *)
(***************************************************************************)
NaN == [nan |-> TRUE, m |-> 0, e |-> 0]
IsNaN(x) == x.nan

RECURSIVE Pow10(_)
Pow10(k) == IF k = 0 THEN 1 ELSE 10 * Pow10(k - 1)

RECURSIVE Normalise(_, _)
Normalise(m, e) ==
  IF e > 0 /\ m % 10 = 0 THEN Normalise(m \div 10, e - 1)
  ELSE [nan |-> FALSE, m |-> m, e |-> e]

Int2Num(n) == [nan |-> FALSE, m |-> n, e |-> 0]

AllDigits(s) == \A i \in 1..Len(s) : s[i] \in Digits

RECURSIVE DigitsValue(_)
DigitsValue(s) ==
  IF s = <<>> THEN 0
  ELSE 10 * DigitsValue(SubSeq(s, 1, Len(s) - 1)) + DigitVal(s[Len(s)])

\* Number(s): white space is trimmed, "" is 0, then [+-] digits [. digits]
\* or [+-] . digits; everything else the alphabet can spell is NaN.
NumberOf(s) ==
  LET t == Trim(s)
      signed == t # <<>> /\ t[1] \in {"-", "+"}
      body == IF signed THEN Tail(t) ELSE t
      dot == IndexOf(body, ".")
      ip == IF dot = -1 THEN body ELSE Slice(body, 0, dot)
      fp == IF dot = -1 THEN <<>> ELSE SliceFrom(body, dot + 1)
      mag == DigitsValue(ip) * Pow10(Len(fp)) + DigitsValue(fp)
  IN  IF t = <<>> THEN Int2Num(0)
      ELSE IF AllDigits(ip) /\ AllDigits(fp) /\ Len(ip) + Len(fp) > 0
           THEN Normalise(IF t[1] = "-" THEN 0 - mag ELSE mag, Len(fp))
           ELSE NaN

\* a - b < 0, the sign the sort comparator looks at
NumLess(a, b) == a.m * Pow10(b.e) < b.m * Pow10(a.e)
\* truthiness of a number: neither NaN nor 0
NumTruthy(x) == ~x.nan /\ x.m # 0

RECURSIVE NatToStr(_)
NatToStr(n) ==
  IF n < 10 THEN <<DigitChar(n)>> ELSE NatToStr(n \div 10) \o <<DigitChar(n % 10)>>

RECURSIVE PadLeft(_, _)
PadLeft(s, k) == IF Len(s) >= k THEN s ELSE PadLeft(<<"0">> \o s, k)

\* String(x) for a finite number (decimal notation; the model's numbers are
\* too short for the exponent notation)
NumToStr(x) ==
  LET a == IF x.m < 0 THEN 0 - x.m ELSE x.m
      p == Pow10(x.e)
      sign == IF x.m < 0 THEN <<"-">> ELSE <<>>
  IN  IF x.nan THEN <<"N", "a", "N">>
      ELSE IF x.e = 0 THEN sign \o NatToStr(a)
      ELSE sign \o NatToStr(a \div p) \o <<".">> \o PadLeft(NatToStr(a % p), x.e)

(***************************************************************************)
(* parseAddressPort (Address/Port Decoder)                                 *)
(***************************************************************************)
parseAddressPort(nameLine) ==
  LET raw == FirstSpaceField(nameLine)
      lastColon == LastIndexOf(raw, ":")
      address == Slice(raw, 0, lastColon)
      portStr == SliceFrom(raw, lastColon + 1)
      port == NumberOf(portStr)
  IN  IF lastColon <= 0 THEN None
      ELSE IF IsNaN(port) THEN None
      ELSE Some([address |-> address, port |-> port])


(***************************************************************************)
(* getListeningByProto (Record Parser)                                     *)
(***************************************************************************)
\* { names: [], proto } as LsofRecord
NewRecord(proto) ==
  [pid |-> None, cmd |-> None, uid |-> None, user |-> None,
   names |-> <<>>, proto |-> proto]

PidTruthy(r) == IsSome(r.pid) /\ NumTruthy(Val(r.pid))
CmdTruthy(r) == IsSome(r.cmd) /\ Val(r.cmd) # <<>>

\* current && (current.pid || current.cmd)
Flushable(current) == IsSome(current) /\ (PidTruthy(Val(current)) \/ CmdTruthy(Val(current)))

\* mutant: the accumulator is pushed without looking at its pid and cmd
Flush_unguarded(records, current) ==
  IF IsSome(current) THEN Append(records, Val(current)) ELSE records

\* records.push(current) when the guard holds
Flush(records, current) ==
  IF Flushable(current) THEN Append(records, Val(current)) ELSE records

\* the body of the switch on a non-"p" tag
SetField(r, tag, val) ==
  CASE tag = "c" -> [r EXCEPT !.cmd = Some(val)]
    [] tag = "u" -> IF IsNaN(NumberOf(val)) THEN r ELSE [r EXCEPT !.uid = Some(NumberOf(val))]
    [] tag = "L" -> [r EXCEPT !.user = Some(val)]
    [] tag = "n" -> [r EXCEPT !.names = Append(r.names, val)]
    [] OTHER -> r

\* the accumulator a "p" line starts
StartRecord(proto, val) ==
  IF IsNaN(NumberOf(val)) THEN NewRecord(proto)
  ELSE [NewRecord(proto) EXCEPT !.pid = Some(NumberOf(val))]

\* the for loop over the lines, then the flush at the end of the input
RECURSIVE ParseLines(_, _, _, _)
ParseLines(lines, records, current, proto) ==
  IF lines = <<>> THEN Flush(records, current)
  ELSE LET line == Head(lines)
           rest == Tail(lines)
       IN  IF line = <<>> THEN ParseLines(rest, records, current, proto)
           ELSE IF line[1] = "p"
                THEN ParseLines(rest, Flush(records, current),
                                Some(StartRecord(proto, SliceFrom(line, 1))), proto)
           ELSE IF ~IsSome(current) THEN ParseLines(rest, records, current, proto)
           ELSE ParseLines(rest, records,
                           Some(SetField(Val(current), line[1], SliceFrom(line, 1))), proto)

\* The outcome of an external invocation (execa): it rejects (non-zero exit,
\* timeout, missing binary) or resolves with the lines of its stdout.
Rejected == [ok |-> FALSE, lines |-> <<>>]
Resolved(lines) == [ok |-> TRUE, lines |-> lines]

\* getListeningByProto: no try/catch, so a rejected invocation is thrown on
getListeningByProto(proto, out) ==
  IF out.ok THEN [threw |-> FALSE, records |-> ParseLines(out.lines, <<>>, None, proto)]
  ELSE [threw |-> TRUE, records |-> <<>>]


(***************************************************************************)
(* Per-pid enrichment: getCwd, getPsInfo, enrichWithStats                  *)
(***************************************************************************)
\* p.split("/").filter(Boolean): the non-empty segments of a path
RECURSIVE Segments(_, _, _)
Segments(s, cur, acc) ==
  IF s = <<>> THEN (IF cur = <<>> THEN acc ELSE Append(acc, cur))
  ELSE IF Head(s) = "/"
       THEN Segments(Tail(s), <<>>, IF cur = <<>> THEN acc ELSE Append(acc, cur))
       ELSE Segments(Tail(s), Append(cur, Head(s)), acc)

\* basename(p) of an optional string: undefined for undefined, "" and "/"
basename(p) ==
  IF ~IsSome(p) \/ Val(p) = <<>> THEN None
  ELSE LET parts == Segments(Val(p), <<>>, <<>>)
       IN  IF parts = <<>> THEN None ELSE Some(parts[Len(parts)])

\* a || b on optional strings: a when it is defined and not ""
OrElse(a, b) == IF IsSome(a) /\ Val(a) # <<>> THEN a ELSE b

\* getCwd: the first stdout line that starts with "n", without the tag
getCwd(out) ==
  IF ~out.ok THEN None
  ELSE IF \E i \in 1..Len(out.lines) : StartsWith(out.lines[i], <<"n">>)
       THEN LET i == CHOOSE k \in 1..Len(out.lines) :
                       /\ StartsWith(out.lines[k], <<"n">>)
                       /\ \A j \in 1..(k - 1) : ~StartsWith(out.lines[j], <<"n">>)
            IN  Some(SliceFrom(out.lines[i], 1))
       ELSE None

RECURSIVE JoinWords(_)
JoinWords(ws) ==
  IF ws = <<>> THEN <<>>
  ELSE IF Len(ws) = 1 THEN ws[1]
  ELSE ws[1] \o <<" ">> \o JoinWords(Tail(ws))

NoPsInfo == [execPath |-> None, cmdline |-> None, startedAt |-> None, fullCommand |-> None]

\* getPsInfo.  The stdout line of ps is given as the regular expression and
\* the split on white space cut it: the words of "command=" and the optional
\* "lstart=" suffix; an empty line has no words.
getPsInfo(out) ==
  IF ~out.ok \/ out.lines = <<>> THEN NoPsInfo
  ELSE LET line == out.lines[1]
       IN  IF line.words = <<>> THEN NoPsInfo
           ELSE [execPath |-> Some(line.words[1]),
                 cmdline |-> Some(JoinWords(Tail(line.words))),
                 startedAt |-> line.lstart,
                 fullCommand |-> OrElse(basename(Some(line.words[1])), Some(line.words[1]))]

NoStats == [cpu |-> None, memory |-> None]

\* mutant: a failed sample is reported as zero usage
statsOf_zeroOnFailure(usage) ==
  IF usage.ok THEN [cpu |-> Some(usage.cpu), memory |-> Some(usage.memory)]
  ELSE [cpu |-> Some(Int2Num(0)), memory |-> Some(Int2Num(0))]

\* one pid's turn in enrichWithStats: pidusage(pid) resolves or rejects
statsOf(usage) ==
  IF usage.ok THEN [cpu |-> Some(usage.cpu), memory |-> Some(usage.memory)] ELSE NoStats

(***************************************************************************)
(* Command.refresh: base, merged, sort (Listener Aggregator)               *)
(***************************************************************************)
\* the Listener pushed for record r and decoded token ap
BaseListener(r, ap) ==
  [pid |-> Val(r.pid), cmd |-> Val(r.cmd), user |-> r.user, uid |-> r.uid,
   address |-> ap.address, port |-> ap.port, protocol |-> r.proto,
   execPath |-> None, cwd |-> None, cmdline |-> None, cpu |-> None,
   memory |-> None, startedAt |-> None,
   displayName |-> OrElse(basename(r.cmd), r.cmd)]

\* mutant: connected-peer tokens are decoded like any other token
TokenAccepted_noArrowCheck(r, n) ==
  /\ IsSome(parseAddressPort(n))
  /\ PidTruthy(r)
  /\ CmdTruthy(r)

\* the two "continue" guards of the inner loop
TokenAccepted(r, n) ==
  /\ ~IncludesArrow(n)
  /\ IsSome(parseAddressPort(n))
  /\ PidTruthy(r)
  /\ CmdTruthy(r)

RECURSIVE BaseOfNames(_, _)
BaseOfNames(r, names) ==
  IF names = <<>> THEN <<>>
  ELSE (IF TokenAccepted(r, Head(names))
        THEN <<BaseListener(r, Val(parseAddressPort(Head(names))))>>
        ELSE <<>>) \o BaseOfNames(r, Tail(names))

RECURSIVE Base(_)
Base(records) ==
  IF records = <<>> THEN <<>>
  ELSE BaseOfNames(Head(records), Head(records).names) \o Base(Tail(records))

\* the pids of base, as a set
PidsOf(base) == {base[i].pid : i \in 1..Len(base)}

\* base.map((b) => b.pid)
PidList(base) == [i \in 1..Len(base) |-> base[i].pid]

\* [...new Set(list)]: the distinct elements, in the order of first occurrence
RECURSIVE SetOrder(_, _)
SetOrder(list, acc) ==
  IF list = <<>> THEN acc
  ELSE SetOrder(Tail(list),
                IF \E i \in 1..Len(acc) : acc[i] = Head(list) THEN acc
                ELSE Append(acc, Head(list)))

\* mutant: the fetches are made per base entry, not per distinct pid
UniquePids_perEntry(base) == PidList(base)

\* const pids = [...new Set(base.map((b) => b.pid))]
UniquePids(base) == SetOrder(PidList(base), <<>>)

\* out[pid] / Object.fromEntries: the entry written last for a pid
LastIndexOfPid(pids, pid) ==
  CHOOSE k \in 1..Len(pids) : pids[k] = pid /\ \A j \in (k + 1)..Len(pids) : pids[j] # pid

\* the static table of the display-name step
nameMap(n) ==
  CASE n = <<"S", "p", "o", "t", "i", "f", "y">> -> Some(<<"S", "p", "o", "t", "i", "f", "y">>)
    [] n = <<"S", "p">> -> Some(<<"S", "p", "o", "t", "i", "f", "y">>)
    [] n = <<"C", "o">> -> Some(<<"C", "o", "d", "e">>)
    [] n = <<"V", "i">> -> Some(<<"V", "i", "s", "u", "a", "l", " ", "S", "t", "u", "d", "i", "o", " ", "C", "o", "d", "e">>)
    [] n = <<"G", "o">> -> Some(<<"G", "o", "o", "g", "l", "e", " ", "C", "h", "r", "o", "m", "e">>)
    [] n = <<"R", "a">> -> Some(<<"R", "a", "y", "c", "a", "s", "t">>)
    [] n = <<"O", "n">> -> Some(<<"O", "n", "e", "D", "r", "i", "v", "e">>)
    [] n = <<"s", "h", "a">> -> Some(<<"s", "h", "a", "r", "i", "n", "g", "d">>)
    [] n = <<"M", "i">> -> Some(<<"M", "i", "c", "r", "o", "s", "o", "f", "t", " ", "T", "e", "a", "m", "s">>)
    [] n = <<"L", "i", "b", "r", "a", "r", "y">> -> Some(<<"L", "i", "b", "r", "a", "r", "y", " ", "A", "g", "e", "n", "t">>)
    [] OTHER -> None

IncludesSlash(s) == \E i \in 1..Len(s) : s[i] = "/"

\* displayName of a merged Listener
DisplayName(b, e) ==
  LET d == OrElse(e.fullCommand, OrElse(basename(e.execPath), Some(b.cmd)))
  IN  IF IsSome(d) /\ Val(d) # <<>> /\ Len(Val(d)) <= 15 /\ ~IncludesSlash(Val(d))
      THEN OrElse(nameMap(Val(d)), d)
      ELSE d

\* the record merged builds from base entry b, its pid's stats s and info e
MergeOne(b, s, e) ==
  [b EXCEPT !.cpu = s.cpu, !.memory = s.memory, !.execPath = e.execPath,
            !.cmdline = e.cmdline, !.cwd = e.cwd, !.startedAt = e.startedAt,
            !.displayName = DisplayName(b, e)]

Merged(base, statsByPid, extraInfoByPid) ==
  [i \in 1..Len(base) |-> MergeOne(base[i], statsByPid[base[i].pid], extraInfoByPid[base[i].pid])]

\* merged.sort((a, b) => a.port - b.port): Array.prototype.sort is stable
RECURSIVE InsertByPort(_, _)
InsertByPort(sorted, x) ==
  IF sorted = <<>> THEN <<x>>
  ELSE IF NumLess(x.port, Head(sorted).port) THEN <<x>> \o sorted
  ELSE <<Head(sorted)>> \o InsertByPort(Tail(sorted), x)

RECURSIVE SortByPort(_)
SortByPort(list) ==
  IF list = <<>> THEN <<>>
  ELSE InsertByPort(SortByPort(SubSeq(list, 1, Len(list) - 1)), list[Len(list)])

(***************************************************************************)
(* Command.hostItems                                                       *)
(***************************************************************************)
CURRENT_USER == <<"m">>
SystemUidLimit == 500

\* `${l.pid}-${l.address}-${l.port}-${l.protocol}`
ProtoStr(p) == IF p = "tcp" THEN <<"t", "c", "p">> ELSE <<"u", "d", "p">>
KeyOf(l) ==
  NumToStr(l.pid) \o <<"-">> \o l.address \o <<"-">> \o NumToStr(l.port)
    \o <<"-">> \o ProtoStr(l.protocol)

SystemPrefixes ==
  { <<"/", "S", "y", "s", "t", "e", "m", "/">>,
    <<"/", "u", "s", "r", "/", "s", "b", "i", "n", "/">>,
    <<"/", "u", "s", "r", "/", "l", "i", "b", "e", "x", "e", "c", "/">>,
    <<"/", "L", "i", "b", "r", "a", "r", "y", "/", "C", "o", "r", "e", "S", "e", "r", "v", "i", "c", "e", "s", "/">> }

isSystem(l) ==
  \/ IsSome(l.uid) /\ NumLess(Val(l.uid), Int2Num(SystemUidLimit))
  \/ IsSome(l.user) /\ Val(l.user) # <<>> /\ CURRENT_USER # <<>> /\ Val(l.user) # CURRENT_USER
  \/ LET p == Val(OrElse(l.execPath, Some(l.cmd)))
     IN  \E pre \in SystemPrefixes : StartsWith(p, pre)

\* mutant: every listener is kept (no Map)
MapSet_noDedup(items, l) == Append(items, l)

\* map.set(key, l): a new key is appended, a known key keeps its place and
\* takes the new value
MapSet(items, l) ==
  IF \E i \in 1..Len(items) : KeyOf(items[i]) = KeyOf(l)
  THEN [i \in 1..Len(items) |-> IF KeyOf(items[i]) = KeyOf(l) THEN l ELSE items[i]]
  ELSE Append(items, l)

HideSystem(mode) == mode \in {"hideSystem", "hideBoth"}

RECURSIVE HostItemsFrom(_, _, _)
HostItemsFrom(list, mode, items) ==
  IF list = <<>> THEN items
  ELSE IF HideSystem(mode) /\ isSystem(Head(list))
       THEN HostItemsFrom(Tail(list), mode, items)
       ELSE HostItemsFrom(Tail(list), mode, MapSet(items, Head(list)))

hostItems(list, mode) == HostItemsFrom(list, mode, <<>>)

(***************************************************************************)
(* killOwnersByPort                                                        *)
(***************************************************************************)
\* mutant: the NaN filter is missing
RECURSIVE ParsePids_keepNaN(_)
ParsePids_keepNaN(lines) ==
  IF lines = <<>> THEN <<>>
  ELSE LET l == Trim(Head(lines))
       IN  (IF l # <<>> THEN <<NumberOf(l)>> ELSE <<>>) \o ParsePids_keepNaN(Tail(lines))

\* stdout.split("\n").map(trim).filter(Boolean).map(Number).filter(!isNaN)
RECURSIVE ParsePids(_)
ParsePids(lines) ==
  IF lines = <<>> THEN <<>>
  ELSE LET l == Trim(Head(lines))
       IN  (IF l # <<>> /\ ~IsNaN(NumberOf(l)) THEN <<NumberOf(l)>> ELSE <<>>)
             \o ParsePids(Tail(lines))

(***************************************************************************)
(* Docker helpers                                                          *)
(***************************************************************************)
DOCKER_PATHS == <<"/usr/local/bin/docker", "/opt/homebrew/bin/docker", "/usr/bin/docker">>

\* findDockerPath: the first path whose version query resolves; `responsive`
\* is the set of paths whose probe resolves during this call
findDockerPath(responsive) ==
  IF \E i \in 1..Len(DOCKER_PATHS) : DOCKER_PATHS[i] \in responsive
  THEN LET i == CHOOSE k \in 1..Len(DOCKER_PATHS) :
                  /\ DOCKER_PATHS[k] \in responsive
                  /\ \A j \in 1..(k - 1) : DOCKER_PATHS[j] \notin responsive
       IN  Some(DOCKER_PATHS[i])
  ELSE None

hasDocker(responsive) == IsSome(findDockerPath(responsive))

\* s.split(c) for a one-character separator
RECURSIVE SplitOn(_, _, _, _)
SplitOn(s, c, cur, acc) ==
  IF s = <<>> THEN Append(acc, cur)
  ELSE IF Head(s) = c THEN SplitOn(Tail(s), c, <<>>, Append(acc, cur))
  ELSE SplitOn(Tail(s), c, Append(cur, Head(s)), acc)
Split(s, c) == SplitOn(s, c, <<>>, <<>>)

\* s.split("->")
RECURSIVE SplitArrowFrom(_, _, _)
SplitArrowFrom(s, cur, acc) ==
  IF s = <<>> THEN Append(acc, cur)
  ELSE IF Len(s) >= 2 /\ s[1] = "-" /\ s[2] = ">"
       THEN SplitArrowFrom(SubSeq(s, 3, Len(s)), <<>>, Append(acc, cur))
       ELSE SplitArrowFrom(Tail(s), Append(cur, Head(s)), acc)
SplitArrow(s) == SplitArrowFrom(s, <<>>, <<>>)

LowerChar(c) ==
  CASE c = "A" -> "a"
    [] c = "B" -> "b"
    [] c = "C" -> "c"
    [] c = "D" -> "d"
    [] c = "E" -> "e"
    [] c = "F" -> "f"
    [] c = "G" -> "g"
    [] c = "H" -> "h"
    [] c = "I" -> "i"
    [] c = "J" -> "j"
    [] c = "K" -> "k"
    [] c = "L" -> "l"
    [] c = "M" -> "m"
    [] c = "N" -> "n"
    [] c = "O" -> "o"
    [] c = "P" -> "p"
    [] c = "Q" -> "q"
    [] c = "R" -> "r"
    [] c = "S" -> "s"
    [] c = "T" -> "t"
    [] c = "U" -> "u"
    [] c = "V" -> "v"
    [] c = "W" -> "w"
    [] c = "X" -> "x"
    [] c = "Y" -> "y"
    [] c = "Z" -> "z"
    [] OTHER -> c
ToLowerCase(s) == [i \in 1..Len(s) |-> LowerChar(s[i])]

\* const [cpStr, proto = "tcp"] = x.split("/")
PortAndProto(x) ==
  LET parts == Split(x, "/")
  IN  [containerPort |-> NumberOf(parts[1]),
       protocol |-> ToLowerCase(IF Len(parts) >= 2 THEN parts[2] ELSE <<"t", "c", "p">>)]

\* the DockerPort of one trimmed, non-empty entry
DockerPortOf(entry) ==
  IF IncludesArrow(entry)
  THEN LET host == SplitArrow(entry)[1]
           cont == SplitArrow(entry)[2]
           lastColon == LastIndexOf(host, ":")
           ip == Slice(host, 0, lastColon)
           hp == NumberOf(SliceFrom(host, lastColon + 1))
           pp == PortAndProto(cont)
       IN  [hostIp |-> IF lastColon = -1 THEN None
                       ELSE IF ip = <<"*">> THEN Some(<<"0", ".", "0", ".", "0", ".", "0">>) ELSE Some(ip),
            hostPort |-> IF lastColon = -1 \/ IsNaN(hp) THEN None ELSE Some(hp),
            containerPort |-> pp.containerPort, protocol |-> pp.protocol]
  ELSE [hostIp |-> None, hostPort |-> None,
        containerPort |-> PortAndProto(entry).containerPort,
        protocol |-> PortAndProto(entry).protocol]

RECURSIVE DockerPortsOf(_)
DockerPortsOf(entries) ==
  IF entries = <<>> THEN <<>>
  ELSE LET e == Trim(Head(entries))
       IN  (IF e # <<>> /\ ~IsNaN(DockerPortOf(e).containerPort)
            THEN <<DockerPortOf(e)>> ELSE <<>>) \o DockerPortsOf(Tail(entries))

parseDockerPorts(portsField) ==
  IF portsField = <<>> THEN <<>> ELSE DockerPortsOf(Split(portsField, ","))

\* A line of "docker ps" / "docker stats" is given as its tab-separated
\* fields; a field the line does not have is undefined.
Field(fields, k) == IF k <= Len(fields) THEN Some(fields[k]) ELSE None

ContainerOf(fields) ==
  [id |-> Field(fields, 1), image |-> Field(fields, 2), name |-> Field(fields, 3),
   status |-> Field(fields, 5),
   ports |-> parseDockerPorts(IF IsSome(Field(fields, 4)) THEN fields[4] ELSE <<>>),
   cpu |-> None, mem |-> None]

\* getDockerContainers: [] without a binary, thrown on when "docker ps" rejects
getDockerContainers(responsive, out) ==
  IF ~IsSome(findDockerPath(responsive)) THEN [threw |-> FALSE, list |-> <<>>]
  ELSE IF ~out.ok THEN [threw |-> TRUE, list |-> <<>>]
  ELSE [threw |-> FALSE, list |-> [i \in 1..Len(out.lines) |-> ContainerOf(out.lines[i])]]

EndsWithPercent(s) == s # <<>> /\ s[Len(s)] = "%"
\* cpuPerc.replace("%", ""): the first "%" is removed
DropFirstPercent(s) ==
  LET k == IndexOf(s, "%")
  IN  IF k = -1 THEN s ELSE Slice(s, 0, k) \o SliceFrom(s, k + 1)

StatOf(fields) ==
  [cpu |-> IF IsSome(Field(fields, 2)) /\ EndsWithPercent(fields[2])
           THEN Some(NumberOf(DropFirstPercent(fields[2]))) ELSE None,
   mem |-> Field(fields, 3)]

\* getDockerStatsByName: the stats lines that count, {} without a binary or
\* when "docker stats" rejects; a later line of the same name wins
getDockerStatsByName(responsive, out) ==
  IF ~IsSome(findDockerPath(responsive)) \/ ~out.ok THEN <<>> ELSE out.lines

\* statMap[c.name]: the last stats line whose name field is c.name
StatFor(statLines, name) ==
  LET hits == {i \in 1..Len(statLines) : Field(statLines[i], 1) = name}
  IN  IF hits = {} \/ ~IsSome(name) THEN [cpu |-> None, mem |-> None]
      ELSE StatOf(statLines[CHOOSE i \in hits : \A j \in hits : j <= i])

WithStats(list, statLines) ==
  [i \in 1..Len(list) |->
     [list[i] EXCEPT !.cpu = StatFor(statLines, list[i].name).cpu,
                     !.mem = StatFor(statLines, list[i].name).mem]]

(***************************************************************************)
(* The component's state and the refresh() calls                           *)
(***************************************************************************)
Cycles == 1..MaxCycles

\* A refresh() call: its position, and the locals and answers it holds.
\*   pids    the pids array;  turn  the index enrichWithStats is awaiting
\*   usage   what pidusage answered for pids[1..turn-1]
\*   info    what lsof -d cwd and ps answered for each element of pids
\*   probed  which paths answered the version query of hasDocker(), of
\*           getDockerContainers() and of getDockerStatsByName()
IdleCycle ==
  [pc |-> "idle", id |-> 0, records |-> <<>>, rejected |-> {}, pids |-> <<>>, turn |-> 0,
   usage |-> <<>>, info |-> <<>>, probed |-> <<>>]

OptionsModes == {"all", "hideSystem", "hideZeroCPU", "hideBoth"}

IdleKill ==
  [pc |-> "idle", sig |-> "TERM", proto |-> "tcp", resolved |-> FALSE, lines |-> <<>>,
   pids |-> <<>>, i |-> 0, calls |-> <<>>, count |-> None]

\* the state after the component is constructed, before its effect runs
InitUI ==
  /\ listeners = <<>>
  /\ dockerAvailable = None
  /\ containers = <<>>
  /\ isLoading = TRUE
  /\ optionsMode = "all"
  /\ listenersFrom = 0
  /\ containersFrom = 0
  /\ cycle = [c \in Cycles |-> IdleCycle]
  /\ started = 0

\* a call of refresh(): by the mount effect, the 4-second timer, the Refresh
\* action or a kill / container action; it runs up to the await of the two
\* getListeningByProto calls
CanRefresh(c, limit) == cycle[c].pc = "idle" /\ started < limit

RefreshCall(c, limit) ==
  /\ CanRefresh(c, limit)
  /\ started' = started + 1
  /\ cycle' = [cycle EXCEPT ![c] = [IdleCycle EXCEPT !.pc = "lsof", !.id = started + 1]]

StartRefresh(c, limit) ==
  /\ RefreshCall(c, limit)
  /\ UNCHANGED <<uiVars, kill, decoder, parser, dockerPorts>>

\* The two enumerations have settled.  One rejection rejects the Promise.all:
\* catch, then the failure toast is awaited.  Otherwise base and pids are
\* built, enrichWithStats awaits pidusage for the first pid and getCwd and
\* getPsInfo are called for every pid.
LsofResolve(c, tcpOuts, udpOuts) ==
  /\ cycle[c].pc = "lsof"
  /\ \E tcpOut \in tcpOuts, udpOut \in udpOuts :
       LET tcp == getListeningByProto("tcp", tcpOut)
           udp == getListeningByProto("udp", udpOut)
           rej == (IF tcp.threw THEN {"tcp"} ELSE {}) \cup (IF udp.threw THEN {"udp"} ELSE {})
       IN  IF rej # {}
           THEN cycle' = [cycle EXCEPT ![c].pc = "toast", ![c].rejected = rej]
           ELSE cycle' = [cycle EXCEPT ![c].pc = "enrich",
                                       ![c].records = tcp.records \o udp.records,
                                       ![c].pids = UniquePids(Base(tcp.records \o udp.records)),
                                       ![c].turn = 1]
  /\ UNCHANGED <<uiVars, started, kill, decoder, parser, dockerPorts>>

\* enrichWithStats: pidusage(pids[turn]) has settled (a rejection is caught);
\* the loop awaits pidusage for the next pid, or the function returns
UsageReturn(c, usageOuts) ==
  /\ cycle[c].pc = "enrich"
  /\ cycle[c].turn <= Len(cycle[c].pids)
  /\ \E u \in usageOuts :
       cycle' = [cycle EXCEPT ![c].usage = Append(@, u), ![c].turn = @ + 1]
  /\ UNCHANGED <<uiVars, started, kill, decoder, parser, dockerPorts>>

\* enrichWithStats has returned and every getCwd and getPsInfo has settled
\* (none of them can reject): merged is built, sorted and published; then
\* hasDocker() is awaited.
EnrichResolve(c, infoOuts) ==
  /\ cycle[c].pc = "enrich"
  /\ cycle[c].turn > Len(cycle[c].pids)
  /\ LET base == Base(cycle[c].records)
         pids == cycle[c].pids
     IN  \E f \in [1..Len(pids) -> infoOuts] :
           LET statsByPid ==
                 [pid \in PidsOf(base) |-> statsOf(cycle[c].usage[LastIndexOfPid(pids, pid)])]
               extraInfoByPid ==
                 [pid \in PidsOf(base) |->
                    [cwd |-> getCwd(f[LastIndexOfPid(pids, pid)].cwd)]
                      @@ getPsInfo(f[LastIndexOfPid(pids, pid)].ps)]
           IN  /\ listeners' = SortByPort(Merged(base, statsByPid, extraInfoByPid))
               /\ listenersFrom' = cycle[c].id
               /\ cycle' = [cycle EXCEPT ![c].pc = "hasDocker", ![c].info = f]
  /\ UNCHANGED <<dockerAvailable, containers, isLoading, optionsMode, containersFrom,
                 started, kill, decoder, parser, dockerPorts>>

\* hasDocker() has settled: setDockerAvailable; with a binary
\* getDockerContainers() and getDockerStatsByName() are called and each awaits
\* its own findDockerPath(); without one setContainers([]) and finally
HasDockerResolve(c, probes) ==
  /\ cycle[c].pc = "hasDocker"
  /\ \E responsive \in probes :
       /\ dockerAvailable' = Some(hasDocker(responsive))
       /\ IF hasDocker(responsive)
          THEN /\ cycle' = [cycle EXCEPT ![c].pc = "docker", ![c].probed = <<responsive>>,
                                         ![c].pids = <<>>, ![c].turn = 0,
                                         ![c].usage = <<>>, ![c].info = <<>>]
               /\ UNCHANGED <<containers, containersFrom, isLoading>>
          ELSE /\ containers' = <<>>
               /\ containersFrom' = cycle[c].id
               /\ isLoading' = FALSE
               /\ cycle' = [cycle EXCEPT ![c] = IdleCycle]
  /\ UNCHANGED <<listeners, listenersFrom, optionsMode, started, kill, decoder, parser, dockerPorts>>

\* the findDockerPath() of getDockerContainers() and the one of
\* getDockerStatsByName() have settled: "docker ps" and "docker stats" are
\* awaited, each with the path its own probe found (or not at all)
DockerPathsResolve(c, probes) ==
  /\ cycle[c].pc = "docker"
  /\ \E r1 \in probes, r2 \in probes :
       cycle' = [cycle EXCEPT ![c].pc = "dockerRun", ![c].probed = @ \o <<r1, r2>>]
  /\ UNCHANGED <<uiVars, started, kill, decoder, parser, dockerPorts>>

\* getDockerContainers() and getDockerStatsByName() have settled:
\* setContainers and finally, or catch
DockerResolve(c, psOuts, statsOuts) ==
  /\ cycle[c].pc = "dockerRun"
  /\ \E psOut \in psOuts, statsOut \in statsOuts :
       LET got == getDockerContainers(cycle[c].probed[2], psOut)
           statMap == getDockerStatsByName(cycle[c].probed[3], statsOut)
       IN  IF got.threw
           THEN /\ cycle' = [cycle EXCEPT ![c].pc = "toast",
                                          ![c].rejected = {"dockerps"}]
                /\ UNCHANGED <<containers, containersFrom, isLoading>>
           ELSE /\ containers' = WithStats(got.list, statMap)
                /\ containersFrom' = cycle[c].id
                /\ isLoading' = FALSE
                /\ cycle' = [cycle EXCEPT ![c] = IdleCycle]
  /\ UNCHANGED <<listeners, listenersFrom, dockerAvailable, optionsMode, started,
                 kill, decoder, parser, dockerPorts>>

\* mutant: the catch branch publishes an empty listener collection
ToastDone_clearsListeners(c) ==
  /\ cycle[c].pc = "toast"
  /\ isLoading' = FALSE
  /\ listeners' = <<>>
  /\ listenersFrom' = cycle[c].id
  /\ cycle' = [cycle EXCEPT ![c] = IdleCycle]
  /\ UNCHANGED <<dockerAvailable, containers, containersFrom, optionsMode, started, kill,
                 decoder, parser, dockerPorts>>

\* the "Refresh failed" toast is shown: finally
ToastDone(c) ==
  /\ cycle[c].pc = "toast"
  /\ isLoading' = FALSE
  /\ cycle' = [cycle EXCEPT ![c] = IdleCycle]
  /\ UNCHANGED <<listeners, listenersFrom, dockerAvailable, containers, containersFrom,
                 optionsMode, started, kill, decoder, parser, dockerPorts>>

\* the options dropdown
SetOptionsMode(mode) ==
  /\ mode # optionsMode
  /\ optionsMode' = mode
  /\ UNCHANGED <<listeners, listenersFrom, dockerAvailable, containers, containersFrom,
                 isLoading, cycle, started, kill, decoder, parser, dockerPorts>>

(***************************************************************************)
(* HostActions.killByPort                                                  *)
(***************************************************************************)
\* the action is chosen: killOwnersByPort runs up to the await of lsof -t
KillByPort(sig, proto) ==
  /\ kill.pc \in {"idle", "done"}
  /\ kill' = [IdleKill EXCEPT !.pc = "lsof", !.sig = sig, !.proto = proto]
  /\ UNCHANGED <<refreshVars, decoder, parser, dockerPorts>>

\* the first signal call is issued and awaited, or there is none to issue
AfterResolution(k) ==
  IF k.pids = <<>>
  THEN [k EXCEPT !.count = Some(Len(k.pids)), !.pc = "toastOk"]
  ELSE [k EXCEPT !.i = 1, !.calls = <<[pid |-> k.pids[1], result |-> "pending"]>>,
                 !.pc = "signal"]

\* lsof -t has settled: a rejection is thrown to killByPort's catch
KillLsofResolve(outs) ==
  /\ kill.pc = "lsof"
  /\ \E out \in outs :
       IF ~out.ok THEN kill' = [kill EXCEPT !.pc = "toastFail"]
       ELSE kill' = AfterResolution([kill EXCEPT !.resolved = TRUE, !.lines = out.lines,
                                                 !.pids = ParsePids(out.lines)])
  /\ UNCHANGED <<refreshVars, decoder, parser, dockerPorts>>

\* the signal call for pids[i] has settled: the loop goes on, the function
\* returns pids.length, or the rejection is thrown to killByPort's catch
KillNext(k, ok) ==
  LET done == [k EXCEPT !.calls[k.i].result = IF ok THEN "ok" ELSE "failed"]
  IN  IF ~ok THEN [done EXCEPT !.pc = "toastFail"]
      ELSE IF k.i < Len(k.pids)
           THEN [done EXCEPT !.i = k.i + 1,
                             !.calls = Append(done.calls,
                                              [pid |-> k.pids[k.i + 1], result |-> "pending"])]
           ELSE [done EXCEPT !.count = Some(Len(k.pids)), !.pc = "toastOk"]

KillSignalReturn ==
  /\ kill.pc = "signal"
  /\ \E ok \in BOOLEAN : kill' = KillNext(kill, ok)
  /\ UNCHANGED <<refreshVars, decoder, parser, dockerPorts>>

\* the success toast is shown, then onRefresh() calls refresh()
KillToastOk ==
  /\ kill.pc = "toastOk"
  /\ kill' = [kill EXCEPT !.pc = "done"]
  /\ IF \E c \in Cycles : CanRefresh(c, MaxStarts)
     THEN \E c \in Cycles : RefreshCall(c, MaxStarts)
     ELSE UNCHANGED <<cycle, started>>
  /\ UNCHANGED <<uiVars, decoder, parser, dockerPorts>>

\* the "Kill-by-Port Failed" toast is shown
KillToastFail ==
  /\ kill.pc = "toastFail"
  /\ kill' = [kill EXCEPT !.pc = "done"]
  /\ UNCHANGED <<refreshVars, decoder, parser, dockerPorts>>

(***************************************************************************)
(* The external invocations in flight, with the timeout option each one    *)
(* is given                                                                *)
(***************************************************************************)
LsofTimeout == 4000          \* getListeningByProto
CwdTimeout == 2500           \* getCwd
PsTimeout == 2500            \* getPsInfo
OwnersTimeout == 2000        \* killOwnersByPort, lsof -t
VersionTimeout == 1000       \* findDockerPath
DockerPsTimeout == 3000      \* getDockerContainers
DockerStatsTimeout == 3500   \* getDockerStatsByName

\* an invocation: the tool, the pid it is about (if any), its timeout (if any)
Call(tool, pid, timeout) == [tool |-> tool, pid |-> pid, timeout |-> timeout]

\* what a refresh() call has issued and is awaiting
InFlight(cy) ==
  CASE cy.pc = "lsof" ->
         {Call("lsof -iTCP", None, Some(LsofTimeout)), Call("lsof -iUDP", None, Some(LsofTimeout))}
    [] cy.pc = "enrich" ->
         (IF cy.turn <= Len(cy.pids)
          THEN {Call("pidusage", Some(cy.pids[cy.turn]), None)} ELSE {})
         \cup {Call("lsof -d cwd", Some(cy.pids[k]), Some(CwdTimeout)) : k \in 1..Len(cy.pids)}
         \cup {Call("ps", Some(cy.pids[k]), Some(PsTimeout)) : k \in 1..Len(cy.pids)}
    [] cy.pc \in {"hasDocker", "docker"} ->
         {Call("docker version", None, Some(VersionTimeout))}
    [] cy.pc = "dockerRun" ->
         (IF hasDocker(cy.probed[2])
          THEN {Call("docker ps", None, Some(DockerPsTimeout))} ELSE {})
         \cup (IF hasDocker(cy.probed[3])
               THEN {Call("docker stats", None, Some(DockerStatsTimeout))} ELSE {})
    [] OTHER -> {}

\* what the killByPort call has issued and is awaiting
KillInFlight(k) ==
  CASE k.pc = "lsof" -> {Call("lsof -t", None, Some(OwnersTimeout))}
    [] k.pc = "signal" -> {Call("kill", Some(k.pids[k.i]), None)}
    [] OTHER -> {}

RECURSIVE StringsUpTo(_, _)
StringsUpTo(chars, n) ==
  IF n = 0 THEN {<<>>}
  ELSE LET shorter == StringsUpTo(chars, n - 1)
       IN  shorter \cup {Append(s, c) : s \in shorter, c \in chars}

RECURSIVE SeqsUpTo(_, _)
SeqsUpTo(S, n) ==
  IF n = 0 THEN {<<>>}
  ELSE LET shorter == SeqsUpTo(S, n - 1)
       IN  shorter \cup {Append(s, x) : s \in shorter, x \in S}

(***************************************************************************)
(* What the external tools answer                                          *)
(***************************************************************************)
\* lsof -iTCP -sTCP:LISTEN: one process, the same socket listed twice
TcpTwice == <<<<"p", "1">>, <<"c", "n">>, <<"u", "5", "0", "1">>, <<"L", "m">>, <<"n", "*", ":", "8", " ", "L">>, <<"n", "*", ":", "8">>>>
\* one process, three sockets, one of them with a negative port segment
TcpSigned == <<<<"p", "1">>, <<"c", "n">>, <<"n", "a", ":", "-", "5">>, <<"n", "*", ":", "1">>, <<"n", "a", "-", ":", "5">>>>
\* a root-owned process
TcpRoot == <<<<"p", "2">>, <<"c", "s">>, <<"u", "0">>, <<"L", "r">>, <<"n", "*", ":", "2">>>>
\* a group without a command name, pid 0, and tokens that are not listeners
TcpOdd == <<<<"p", "3">>, <<"n", "*", ":", "3">>, <<"p", "0">>, <<"c", "z">>, <<"n", "*", ":", "4">>, <<"p", "1">>, <<"c", "n">>, <<"n", "*", ":", "*">>, <<"n", "a", ":", "1", "-", ">", "b", ":", "2">>, <<"n", "b">>, <<"n", "a", ":">>>>

TcpOutputs ==
  {Rejected, Resolved(<<>>), Resolved(TcpTwice), Resolved(TcpSigned),
   Resolved(TcpRoot), Resolved(TcpOdd)}

\* lsof -iUDP: the socket of TcpTwice on udp; a connected socket
UdpSame == <<<<"p", "1">>, <<"c", "n">>, <<"u", "5", "0", "1">>, <<"L", "m">>, <<"n", "*", ":", "8">>>>
UdpConnected == <<<<"p", "1">>, <<"c", "n">>, <<"n", "a", ":", "1", "-", ">", "b", ":", "2">>>>

UdpOutputs == {Rejected, Resolved(UdpSame), Resolved(UdpConnected)}

\* the process of TcpTwice seen under another command name, on another port
UdpRenamed == <<<<"p", "1">>, <<"c", "z">>, <<"u", "5", "0", "1">>, <<"L", "m">>, <<"n", "*", ":", "9">>>>

\* pidusage(pid): rejected, or cpu and memory
UsageFailed == [ok |-> FALSE, cpu |-> NaN, memory |-> NaN]
UsageBusy == [ok |-> TRUE, cpu |-> NumberOf(<<"1", ".", "5">>), memory |-> Int2Num(9)]
UsageOutcomes == {UsageFailed, UsageBusy}

\* lsof -a -p pid -d cwd -Fn
CwdHome == Resolved(<<<<"p", "1">>, <<"f", "c", "w", "d">>, <<"n", "/", "w">>>>)
CwdOutcomes == {Rejected, CwdHome}
\* ps -o command=,lstart= -p pid: an application, a binary under /usr/sbin
PsApp == Resolved(<<[words |-> <<<<"/", "a", "/", "S", "p">>, <<"-", "x">>>>, lstart |-> Some(<<"T">>)]>>)
PsSystem == Resolved(<<[words |-> <<<<"/", "u", "s", "r", "/", "s", "b", "i", "n", "/", "x">>>>, lstart |-> None]>>)
PsOutcomes == {Rejected, PsApp, PsSystem}

\* what getCwd and getPsInfo of one pid are answered: every combination
InfoOutcomes == [cwd : CwdOutcomes, ps : PsOutcomes]

\* which of DOCKER_PATHS answer the version query
Probes == {{}, {DOCKER_PATHS[1]}, {DOCKER_PATHS[2], DOCKER_PATHS[3]}}

\* docker ps: fields id, image, name, ports, status
PsWeb == <<<<<<"i", "1">>, <<"i", "m", "g">>, <<"w", "e", "b">>, <<"*", ":", "8", "-", ">", "8", "0", "/", "T", "C", "P", ",", " ", "4", "4", "3">>, <<"U", "p">>>>>>
DockerPsOutputs == {Rejected, Resolved(<<>>), Resolved(PsWeb)}

\* docker stats: fields name, cpu, memory
StatsWeb == <<<<<<"w", "e", "b">>, <<"1", ".", "5", "%">>, <<"1", "M", "i", "B">>>>>>
DockerStatsOutputs == {Rejected, Resolved(StatsWeb)}

\* lsof -t: owner pids, one per line
KillLines == {<<>>, <<"1">>, <<"2">>, <<" ", "1">>, <<"a">>}

(***************************************************************************)
(* Spec: refresh() calls that overlap (timer, Refresh action, after a      *)
(* kill), over a small choice of tool output                               *)
(***************************************************************************)
Init ==
  /\ InitUI
  /\ kill = IdleKill
  /\ decoder = [token |-> <<>>, done |-> FALSE, result |-> None]
  /\ parser = [lines |-> <<>>, proto |-> "tcp", done |-> FALSE, records |-> <<>>]
  /\ dockerPorts = [field |-> <<>>, done |-> FALSE, result |-> <<>>]

Next ==
  \/ \E c \in Cycles : StartRefresh(c, MaxStarts)
  \/ \E c \in Cycles : LsofResolve(c, {Rejected, Resolved(TcpTwice)}, {Rejected, Resolved(UdpSame)})
  \/ \E c \in Cycles : UsageReturn(c, {UsageBusy})
  \/ \E c \in Cycles : EnrichResolve(c, {[cwd |-> CwdHome, ps |-> PsApp]})
  \/ \E c \in Cycles : HasDockerResolve(c, Probes)
  \/ \E c \in Cycles : DockerPathsResolve(c, Probes)
  \/ \E c \in Cycles : DockerResolve(c, {Rejected, Resolved(PsWeb)}, {Resolved(StatsWeb)})
  \/ \E c \in Cycles : ToastDone(c)

Spec == Init /\ [][Next]_vars

(***************************************************************************)
(* SpecCycle: one refresh() call at a time, over every combination of the  *)
(* enumeration outputs above, with the options dropdown, on a host where   *)
(* no container-runtime binary answers                                     *)
(***************************************************************************)
NextCycle ==
  \/ StartRefresh(1, MaxStarts)
  \/ LsofResolve(1, TcpOutputs, UdpOutputs)
  \/ UsageReturn(1, UsageOutcomes)
  \/ EnrichResolve(1, {[cwd |-> Rejected, ps |-> Rejected], [cwd |-> CwdHome, ps |-> PsSystem]})
  \/ HasDockerResolve(1, {{}})
  \/ ToastDone(1)
  \/ \E mode \in OptionsModes : SetOptionsMode(mode)

SpecCycle == Init /\ [][NextCycle]_vars

(***************************************************************************)
(* SpecDocker: one refresh() call at a time, with enumerations that fail   *)
(* or resolve, over every answer of the container-runtime invocations      *)
(***************************************************************************)
NextDocker ==
  \/ StartRefresh(1, MaxStarts)
  \/ LsofResolve(1, {Rejected, Resolved(TcpTwice)}, {Rejected, Resolved(UdpSame)})
  \/ UsageReturn(1, {UsageBusy})
  \/ EnrichResolve(1, {[cwd |-> CwdHome, ps |-> PsApp]})
  \/ HasDockerResolve(1, Probes)
  \/ DockerPathsResolve(1, Probes)
  \/ DockerResolve(1, DockerPsOutputs, DockerStatsOutputs)
  \/ ToastDone(1)

SpecDocker == Init /\ [][NextDocker]_vars

(***************************************************************************)
(* SpecEnrich: refresh() calls, one at a time, whose enumerations resolve, *)
(* over every combination of what pidusage, lsof -d cwd and ps answer for  *)
(* each pid                                                                *)
(***************************************************************************)
NextEnrich ==
  \/ StartRefresh(1, MaxEnrichStarts)
  \/ LsofResolve(1, {Resolved(TcpTwice), Resolved(TcpRoot)},
                    {Resolved(UdpSame), Resolved(UdpRenamed)})
  \/ UsageReturn(1, UsageOutcomes)
  \/ EnrichResolve(1, InfoOutcomes)
  \/ HasDockerResolve(1, {{}})

SpecEnrich == Init /\ [][NextEnrich]_vars

(***************************************************************************)
(* SpecKill: killByPort over every owner-resolution output of at most      *)
(* MaxKillLines lines and every outcome of the signal calls                *)
(***************************************************************************)
NextKill ==
  \/ \E sig \in {"TERM", "KILL"}, proto \in {"tcp", "udp"} : KillByPort(sig, proto)
  \/ KillLsofResolve({Rejected} \cup {Resolved(ls) : ls \in SeqsUpTo(KillLines, MaxKillLines)})
  \/ KillSignalReturn
  \/ KillToastOk
  \/ KillToastFail

SpecKill == Init /\ [][NextKill]_vars

(***************************************************************************)
(* SpecDecoder: parseAddressPort applied to every token of at most         *)
(* MaxTokenLen characters over TokenChars.                                 *)
(***************************************************************************)
TokenChars == {"a", "0", "1", ":", "-", ".", " ", ">"}

DecoderIdle == decoder = [token |-> <<>>, done |-> FALSE, result |-> None]
ParserIdle == parser = [lines |-> <<>>, proto |-> "tcp", done |-> FALSE, records |-> <<>>]
PortsIdle == dockerPorts = [field |-> <<>>, done |-> FALSE, result |-> <<>>]

InitDecoder ==
  /\ decoder \in [token : StringsUpTo(TokenChars, MaxTokenLen), done : {FALSE}, result : {None}]
  /\ ParserIdle
  /\ PortsIdle
  /\ InitUI
  /\ kill = IdleKill

Decode ==
  /\ ~decoder.done
  /\ decoder' = [decoder EXCEPT !.done = TRUE, !.result = parseAddressPort(decoder.token)]
  /\ UNCHANGED <<refreshVars, kill, parser, dockerPorts>>

NextDecoder == Decode

SpecDecoder == InitDecoder /\ [][NextDecoder]_vars

(***************************************************************************)
(* SpecParser: getListeningByProto applied to every stdout of at most      *)
(* MaxLines lines drawn from ParserLines.                                  *)
(***************************************************************************)
ParserLines ==
  { <<>>,                          \* blank line
    <<"p", "1">>, <<"p", "2">>,    \* process-id lines
    <<"p", "0">>,                  \* pid 0
    <<"p", "a">>,                  \* a pid Number() cannot read
    <<"c", "a">>,                  \* command name
    <<"c">>,                       \* empty command name
    <<"u", "5">>, <<"L", "a">>,    \* uid, user
    <<"n", "*", ":", "1">>,        \* name
    <<"f", "1">> }                 \* a tag the parser does not know

InitParser ==
  /\ parser \in [lines : SeqsUpTo(ParserLines, MaxLines), proto : {"tcp", "udp"},
                 done : {FALSE}, records : {<<>>}]
  /\ DecoderIdle
  /\ PortsIdle
  /\ InitUI
  /\ kill = IdleKill

Parse ==
  /\ ~parser.done
  /\ parser' = [parser EXCEPT !.done = TRUE,
                  !.records = getListeningByProto(parser.proto, Resolved(parser.lines)).records]
  /\ UNCHANGED <<refreshVars, kill, decoder, dockerPorts>>

NextParser == Parse

SpecParser == InitParser /\ [][NextParser]_vars


(***************************************************************************)
(* SpecPorts: parseDockerPorts applied to every Ports field made of at     *)
(* most MaxPortPieces pieces of PortPieces.                                *)
(***************************************************************************)
PortPieces ==
  { <<"*", ":", "8", "-", ">">>,   \* published on every interface, host port 8
    <<"a", "-", ">">>,       \* a host part without a colon
    <<"8", "0">>,           \* digits
    <<".", "5">>,           \* a fraction
    <<"/", "T">>,           \* protocol suffix, upper case
    <<",">>, <<" ">>, <<"x">>, <<"-">> }

RECURSIVE Flatten(_)
Flatten(pieces) == IF pieces = <<>> THEN <<>> ELSE Head(pieces) \o Flatten(Tail(pieces))

PortFields == {Flatten(ps) : ps \in SeqsUpTo(PortPieces, MaxPortPieces)}

InitPorts ==
  /\ dockerPorts \in [field : PortFields, done : {FALSE}, result : {<<>>}]
  /\ DecoderIdle
  /\ ParserIdle
  /\ InitUI
  /\ kill = IdleKill

ParsePorts ==
  /\ ~dockerPorts.done
  /\ dockerPorts' = [dockerPorts EXCEPT !.done = TRUE,
                                        !.result = parseDockerPorts(dockerPorts.field)]
  /\ UNCHANGED <<refreshVars, kill, decoder, parser>>

NextPorts == ParsePorts

SpecPorts == InitPorts /\ [][NextPorts]_vars

(***************************************************************************)
(* Claims about the pure functions                                         *)
(***************************************************************************)
\* the port segment the claim accepts: a non-empty run of decimal digits
ValidPortSegment(s) == s # <<>> /\ AllDigits(s)

\* C9 (as stated): after dropping everything from the first space, the
\* decoder returns none exactly when there is no colon at a position > 0 or
\* the port segment is not a non-negative integer, and otherwise returns
\* (text before the last colon, value of the port segment).
C9_DecoderRejectsNonInteger ==
  decoder.done =>
    LET raw == FirstSpaceField(decoder.token)
        k == LastIndexOf(raw, ":")
    IN  IF k <= 0 \/ ~ValidPortSegment(SliceFrom(raw, k + 1))
        THEN decoder.result = None
        ELSE decoder.result = Some([address |-> Slice(raw, 0, k),
                                    port |-> Int2Num(DigitsValue(SliceFrom(raw, k + 1)))])

\* the process-id lines of an input, and the group of lines each one starts
IsPLine(line) == line # <<>> /\ line[1] = "p"
PLineIdx(lines) == {i \in 1..Len(lines) : IsPLine(lines[i])}
GroupEnd(lines, i) ==
  IF \E j \in PLineIdx(lines) : j > i
  THEN (CHOOSE j \in PLineIdx(lines) : j > i /\ \A k \in PLineIdx(lines) : k > i => j <= k) - 1
  ELSE Len(lines)
GroupLines(lines, i, tag) ==
  {j \in (i + 1)..GroupEnd(lines, i) : lines[j] # <<>> /\ lines[j][1] = tag}
\* the group's command name: the value of its last "c" line, when it has one
GroupHasCmd(lines, i) ==
  /\ GroupLines(lines, i, "c") # {}
  /\ LET last == CHOOSE j \in GroupLines(lines, i, "c") :
                   \A k \in GroupLines(lines, i, "c") : k <= j
     IN  Len(lines[last]) > 1
GroupHasPid(lines, i) == NumTruthy(NumberOf(SliceFrom(lines[i], 1)))
KeptIdx(lines) == {i \in PLineIdx(lines) : GroupHasPid(lines, i) \/ GroupHasCmd(lines, i)}
NthKept(lines, k) ==
  CHOOSE i \in KeptIdx(lines) : Cardinality({j \in KeptIdx(lines) : j < i}) = k - 1

\* C8 (as stated): the parser emits exactly one record per process-id line.
C8_OneRecordPerPidLine ==
  parser.done => Len(parser.records) = Cardinality(PLineIdx(parser.lines))

\* C8 (amended): the parser emits, in input order, exactly one record per
\* process-id line whose group carries a non-zero numeric pid or a non-empty
\* command name; the records carry the group's pid and names, and the flush at
\* the end of the input adds the last group once.
C8_OneRecordPerKeptPidLine ==
  parser.done =>
    /\ Len(parser.records) = Cardinality(KeptIdx(parser.lines))
    /\ \A k \in 1..Len(parser.records) :
         LET i == NthKept(parser.lines, k)
             pid == NumberOf(SliceFrom(parser.lines[i], 1))
         IN  /\ parser.records[k].pid = (IF IsNaN(pid) THEN None ELSE Some(pid))
             /\ Len(parser.records[k].names) = Cardinality(GroupLines(parser.lines, i, "n"))
             /\ parser.records[k].proto = parser.proto

\* C8 witness: an input whose last group is kept (flushed at the end of the
\* input) after an earlier group that was dropped
C8_Witness ==
  /\ parser.done
  /\ Len(parser.records) = 1
  /\ Cardinality(PLineIdx(parser.lines)) = 2
  /\ Len(parser.lines) \in KeptIdx(parser.lines)


(***************************************************************************)
(* Claims about refresh()                                                  *)
(***************************************************************************)
\* C1 (as stated): in every reachable state the published listener
\* collection and the published container collection were published by the
\* same refresh() call.
C1_PublishedPairFromOneCycle == listenersFrom = containersFrom

\* C2 (as stated): a refresh() call in which exactly one of the two socket
\* enumerations was rejected does not take the failure path: the rejection is
\* not propagated and the call goes on to publish the other protocol's
\* listeners.
C2_OneEnumerationFailureNotPropagated ==
  \A c \in Cycles :
    cycle[c].pc = "toast" => Cardinality(cycle[c].rejected \cap {"tcp", "udp"}) # 1

\* the identity key of the data model
SameKey(a, b) ==
  a.pid = b.pid /\ a.address = b.address /\ a.port = b.port /\ a.protocol = b.protocol
UniqueKeys(list) ==
  \A i \in 1..Len(list), j \in 1..Len(list) : i < j => ~SameKey(list[i], list[j])

\* C6 (as stated): the listener collection a refresh() call publishes holds
\* at most one Listener per (pid, address, port, protocol).
C6_PublishedListenersUnique == UniqueKeys(listeners)

\* C6 (amended): the list derived from the published collection by hostItems
\* (the only reader of the collection) holds at most one Listener per
\* (pid, address, port, protocol), whatever the options mode.
C6_HostItemsUnique == UniqueKeys(hostItems(listeners, optionsMode))

\* C6 witness: the published collection holds the same key twice and
\* hostItems has collapsed it
C6_Witness ==
  /\ ~UniqueKeys(listeners)
  /\ Len(hostItems(listeners, optionsMode)) < Len(listeners)
  /\ Len(hostItems(listeners, optionsMode)) > 0

SortedByPort(list) ==
  \A i \in 1..(Len(list) - 1) : ~NumLess(list[i + 1].port, list[i].port)

\* C7 (as stated): the published listener collection and the list hostItems
\* derives from it are both in non-decreasing port order.
C7_ListenersAndHostItemsSorted ==
  /\ SortedByPort(listeners)
  /\ SortedByPort(hostItems(listeners, optionsMode))

\* a token the claim lets through for record r
Qualifies(r, n) ==
  /\ ~IncludesArrow(n)
  /\ IsSome(r.pid) /\ ~IsNaN(Val(r.pid)) /\ Val(r.pid).m # 0
  /\ IsSome(r.cmd) /\ Val(r.cmd) # <<>>
  /\ IsSome(parseAddressPort(n))
QualifyingTokens(records) ==
  {kj \in (1..Len(records)) \X (1..MaxNames) :
     kj[2] <= Len(records[kj[1]].names) /\ Qualifies(records[kj[1]], records[kj[1]].names[kj[2]])}
CameFrom(l, r, n) ==
  /\ Qualifies(r, n)
  /\ l.pid = Val(r.pid) /\ l.cmd = Val(r.cmd) /\ l.protocol = r.proto
  /\ l.address = Val(parseAddressPort(n)).address
  /\ l.port = Val(parseAddressPort(n)).port

\* C10: no published Listener has a connected-peer marker in its address, and
\* the collection a refresh() call publishes holds exactly one Listener per
\* token that has no "->", decodes, and belongs to a record with a pid and a
\* command name; every other token and record contributes none.
C10_NoConnectedPeerListener ==
  /\ \A i \in 1..Len(listeners) : ~IncludesArrow(listeners[i].address)
  /\ \A c \in Cycles :
       cycle[c].pc \in {"hasDocker", "docker"} /\ cycle[c].id = listenersFrom =>
         /\ Len(listeners) = Cardinality(QualifyingTokens(cycle[c].records))
         /\ \A i \in 1..Len(listeners) :
              \E k \in 1..Len(cycle[c].records) :
                \E j \in 1..Len(cycle[c].records[k].names) :
                  CameFrom(listeners[i], cycle[c].records[k], cycle[c].records[k].names[j])

\* C10 witness: a published collection whose records held a connected-peer
\* token, and a token of a record without a command name
C10_Witness ==
  \E c \in Cycles :
    /\ cycle[c].pc = "hasDocker" /\ cycle[c].id = listenersFrom
    /\ Len(listeners) > 0
    /\ \E k \in 1..Len(cycle[c].records) :
         \E j \in 1..Len(cycle[c].records[k].names) :
           IncludesArrow(cycle[c].records[k].names[j])
    /\ \E k \in 1..Len(cycle[c].records) :
         ~IsSome(cycle[c].records[k].cmd) /\ cycle[c].records[k].names # <<>>

(***************************************************************************)
(* Claims about killByPort                                                 *)
(***************************************************************************)
\* C3 (as stated): when killByPort has finished, a signal call was issued for
\* every resolved pid, whichever signal calls failed.
C3_EveryResolvedPidSignalled ==
  kill.pc = "done" /\ kill.resolved => Len(kill.calls) = Len(kill.pids)

ConfirmedSends(calls) == Cardinality({j \in 1..Len(calls) : calls[j].result = "ok"})

\* C4 (as stated): when killByPort has finished after a successful owner
\* resolution, a count is reported and it is the number of signal calls that
\* succeeded.
C4_CountIsConfirmedSends ==
  kill.pc = "done" /\ kill.resolved =>
    IsSome(kill.count) /\ Val(kill.count) = ConfirmedSends(kill.calls)

\* an owner-resolution output that names no pid
ZeroOwners(lines) ==
  \A i \in 1..Len(lines) : Trim(lines[i]) = <<>> \/ IsNaN(NumberOf(Trim(lines[i])))

NonEmpty(s) == s # <<>>
TrimEach(parts) == [i \in 1..Len(parts) |-> Trim(parts[i])]
\* the comma-separated, trimmed, non-empty entries of a Ports field
PortEntries(field) == SelectSeq(TrimEach(Split(field, ",")), NonEmpty)
\* the container part of an entry, its port segment and its protocol text
ContainerPart(entry) == IF IncludesArrow(entry) THEN SplitArrow(entry)[2] ELSE entry
PortSegment(entry) == Split(ContainerPart(entry), "/")[1]
HasProtocolText(entry) == Len(Split(ContainerPart(entry), "/")) >= 2
\* "parses as an integer": a number with no fractional part, from a
\* non-empty segment
IsIntegerNum(n) == ~IsNaN(n) /\ n.e = 0
ParsesAsInteger(seg) == seg # <<>> /\ IsIntegerNum(NumberOf(seg))
EntryKept(entry) == ParsesAsInteger(PortSegment(entry))

\* C11 (as stated): the result has, in input order, exactly one mapping per
\* non-empty entry whose container-port segment parses as an integer and none
\* for any other entry; an entry without "->" has no host address and no host
\* port; an entry with a host part that has a colon has the text before its
\* last colon as host address ("*" as 0.0.0.0) and the number after it as host
\* port; the protocol is the lower-cased text after "/", or tcp.
C11_OneMappingPerIntegerEntry ==
  dockerPorts.done =>
    LET kept == SelectSeq(PortEntries(dockerPorts.field), EntryKept)
        res == dockerPorts.result
    IN  /\ Len(res) = Len(kept)
        /\ \A i \in 1..Len(kept) :
             LET e == kept[i]
                 host == SplitArrow(e)[1]
                 k == LastIndexOf(host, ":")
             IN  /\ res[i].containerPort = NumberOf(PortSegment(e))
                 /\ res[i].protocol =
                      (IF HasProtocolText(e) THEN ToLowerCase(Split(ContainerPart(e), "/")[2])
                       ELSE <<"t", "c", "p">>)
                 /\ ~IncludesArrow(e) => res[i].hostIp = None /\ res[i].hostPort = None
                 /\ (IncludesArrow(e) /\ k >= 0) =>
                      /\ res[i].hostIp = Some(IF Slice(host, 0, k) = <<"*">>
                                              THEN <<"0", ".", "0", ".", "0", ".", "0">>
                                              ELSE Slice(host, 0, k))
                      /\ ParsesAsInteger(SliceFrom(host, k + 1)) =>
                           res[i].hostPort = Some(NumberOf(SliceFrom(host, k + 1)))

(***************************************************************************)
(* Claims about killByPort, continued                                      *)
(***************************************************************************)
\* the distinct pids of the owner resolution
DistinctPids(k) == {k.pids[i] : i \in 1..Len(k.pids)}

\* C16 (as stated): whatever the owner-resolution query printed, no pid is
\* the target of two signal calls of one invocation, and the returned count
\* is the number of distinct pids.
C16_EachPidSignalledOnce ==
  kill.resolved =>
    /\ \A i, j \in 1..Len(kill.calls) : kill.calls[i].pid = kill.calls[j].pid => i = j
    /\ IsSome(kill.count) => Val(kill.count) = Cardinality(DistinctPids(kill))

(***************************************************************************)
(* Claims about the per-pid enrichment                                     *)
(***************************************************************************)
\* the refresh() call whose enrichment has just been published
JustPublished(c) == cycle[c].pc = "hasDocker" /\ cycle[c].id = listenersFrom

\* the fields of a Listener that come from the per-pid fetches
EnrichmentFields(l) == <<l.cpu, l.memory, l.execPath, l.cmdline, l.cwd, l.startedAt>>

\* pidusage, lsof -d cwd and ps were each called once for every distinct pid
\* of base and for no other pid
FetchedOncePerPid(cy) ==
  /\ \A pid \in PidsOf(Base(cy.records)) :
       Cardinality({k \in 1..Len(cy.pids) : cy.pids[k] = pid}) = 1
  /\ \A k \in 1..Len(cy.pids) : cy.pids[k] \in PidsOf(Base(cy.records))
  /\ Len(cy.usage) = Len(cy.pids)
  /\ Len(cy.info) = Len(cy.pids)

\* two accepted sockets that differ only in protocol are published as two
\* Listeners that differ only in protocol
ProtocolTwinsKept(cy) ==
  LET base == Base(cy.records)
  IN  \A i, j \in 1..Len(base) :
        (base[i].protocol # base[j].protocol
           /\ [base[i] EXCEPT !.protocol = base[j].protocol] = base[j]) =>
          \E a, b \in 1..Len(listeners) :
            /\ a # b
            /\ listeners[a].pid = base[i].pid
            /\ listeners[a].address = base[i].address
            /\ listeners[a].port = base[i].port
            /\ listeners[a].protocol = base[i].protocol
            /\ listeners[b] = [listeners[a] EXCEPT !.protocol = base[j].protocol]

\* C12 (as stated): in a cycle the fetches are made exactly once per distinct
\* pid, Listeners of one pid carry identical cpu, memory, executable path,
\* command line, working directory, start time and display name, and two
\* sockets of a pid that differ only in protocol give two Listeners that
\* differ only in protocol.
C12_SamePidSameEnrichmentAndName ==
  \A c \in Cycles :
    JustPublished(c) =>
      /\ FetchedOncePerPid(cycle[c])
      /\ \A i, j \in 1..Len(listeners) :
           listeners[i].pid = listeners[j].pid =>
             /\ EnrichmentFields(listeners[i]) = EnrichmentFields(listeners[j])
             /\ listeners[i].displayName = listeners[j].displayName
      /\ ProtocolTwinsKept(cycle[c])

\* C12 (amended): as C12, but the display names of two Listeners of one pid
\* are identical whenever their records carry the same command name.
C12_SamePidSameEnrichment ==
  \A c \in Cycles :
    JustPublished(c) =>
      /\ FetchedOncePerPid(cycle[c])
      /\ \A i, j \in 1..Len(listeners) :
           listeners[i].pid = listeners[j].pid =>
             /\ EnrichmentFields(listeners[i]) = EnrichmentFields(listeners[j])
             /\ listeners[i].cmd = listeners[j].cmd =>
                  listeners[i].displayName = listeners[j].displayName
      /\ ProtocolTwinsKept(cycle[c])

\* a pid with a tcp and a udp socket on one port, published with its usage
C12_Witness ==
  \E c \in Cycles :
    /\ JustPublished(c)
    /\ \E a, b \in 1..Len(listeners) :
         /\ listeners[a].protocol = "tcp"
         /\ listeners[b] = [listeners[a] EXCEPT !.protocol = "udp"]
         /\ IsSome(listeners[a].cpu)
         /\ IsSome(listeners[a].execPath)

\* the index of a pid in the pids array
IndexOfPid(pids, pid) == CHOOSE k \in 1..Len(pids) : pids[k] = pid

\* C13: whatever combination of pidusage, lsof -d cwd and ps fails for a
\* pid, the cycle publishes one Listener per accepted socket; each Listener
\* lacks exactly the fields of the fetches that failed for its own pid and
\* carries what the other fetches of its pid returned.
C13_FetchesDegradeIndependently ==
  \A c \in Cycles :
    JustPublished(c) =>
      /\ Len(listeners) = Len(Base(cycle[c].records))
      /\ \A i \in 1..Len(listeners) :
           LET l == listeners[i]
               k == IndexOfPid(cycle[c].pids, l.pid)
               u == cycle[c].usage[k]
               f == cycle[c].info[k]
           IN  /\ l.pid \in PidsOf(Base(cycle[c].records))
               /\ IF u.ok THEN l.cpu = Some(u.cpu) /\ l.memory = Some(u.memory)
                  ELSE l.cpu = None /\ l.memory = None
               /\ IF f.cwd.ok THEN l.cwd = getCwd(f.cwd) /\ IsSome(l.cwd)
                  ELSE l.cwd = None
               /\ IF f.ps.ok
                  THEN /\ l.execPath = getPsInfo(f.ps).execPath /\ IsSome(l.execPath)
                       /\ l.cmdline = getPsInfo(f.ps).cmdline /\ IsSome(l.cmdline)
                       /\ l.startedAt = getPsInfo(f.ps).startedAt
                  ELSE l.execPath = None /\ l.cmdline = None /\ l.startedAt = None

\* two pids: for one only ps fails, for the other only pidusage succeeds
C13_Witness ==
  \E c \in Cycles :
    /\ JustPublished(c)
    /\ \E i, j \in 1..Len(listeners) :
         /\ listeners[i].pid # listeners[j].pid
         /\ IsSome(listeners[i].cpu) /\ IsSome(listeners[i].cwd) /\ ~IsSome(listeners[i].execPath)
         /\ IsSome(listeners[j].cpu) /\ ~IsSome(listeners[j].cwd) /\ ~IsSome(listeners[j].execPath)

(***************************************************************************)
(* Claims about timeouts and about the order of the invocations            *)
(***************************************************************************)
\* C14 (as stated): every external invocation that is awaited, by a refresh
\* or by a kill-by-port, was given a timeout.
C14_EveryInvocationHasTimeout ==
  \A call \in KillInFlight(kill) \cup UNION {InFlight(cycle[c]) : c \in Cycles} :
    IsSome(call.timeout)

HostTools == {"lsof -iTCP", "lsof -iUDP", "pidusage", "lsof -d cwd", "ps"}
ContainerTools == {"docker version", "docker ps", "docker stats"}

\* C17 (as stated): while an invocation of the host pipeline of a cycle is in
\* flight, the container calls of that cycle have been started (one is in
\* flight or the probe has answered); and during enrichment the sampling of
\* every pid not yet sampled is in flight.
C17_ContainerAndSamplingCallsConcurrent ==
  \A c \in Cycles :
    LET cy == cycle[c]
    IN  /\ (\E call \in InFlight(cy) : call.tool \in HostTools) =>
             \/ \E call \in InFlight(cy) : call.tool \in ContainerTools
             \/ cy.probed # <<>>
        /\ cy.pc = "enrich" =>
             \A k \in cy.turn..Len(cy.pids) :
               Call("pidusage", Some(cy.pids[k]), None) \in InFlight(cy)

(***************************************************************************)
(* Claims about the container section and about failed cycles              *)
(***************************************************************************)
\* C15 (as stated): the path that answered hasDocker()'s version query is the
\* path the listing and the stats call of the same cycle are run with.
C15_OneBinaryPerCycle ==
  \A c \in Cycles :
    cycle[c].pc = "dockerRun" =>
      /\ findDockerPath(cycle[c].probed[2]) = findDockerPath(cycle[c].probed[1])
      /\ findDockerPath(cycle[c].probed[3]) = findDockerPath(cycle[c].probed[1])

\* C18 (as stated): every published Listener has an integer port between 0
\* and 65535 and a positive integer pid.
C18_PublishedPortsAndPidsInRange ==
  \A i \in 1..Len(listeners) :
    /\ IsIntegerNum(listeners[i].port)
    /\ listeners[i].port.m >= 0 /\ listeners[i].port.m <= 65535
    /\ IsIntegerNum(listeners[i].pid)
    /\ listeners[i].pid.m > 0

\* C19 (as stated): whenever the container subsystem is reported unavailable
\* the published container collection is empty.
C19_UnavailableMeansNoContainers ==
  dockerAvailable = Some(FALSE) => containers = <<>>

\* the steps of a refresh() call whose enumeration fails: the rejection is
\* caught, the toast is shown
EnumerationFails(c) == cycle[c].pc = "lsof" /\ cycle'[c].pc = "toast"
FailedCycleEnds(c) ==
  /\ cycle[c].pc = "toast"
  /\ cycle[c].rejected \cap {"tcp", "udp"} # {}
  /\ cycle'[c].pc # "toast"

\* C20: the steps of a refresh() call whose host enumeration fails leave the
\* listener collection, the container collection and the availability flag
\* as they are, and its last step clears the loading flag.
C20_FailedEnumerationKeepsPublishedState ==
  [][\A c \in Cycles :
       /\ (EnumerationFails(c) \/ FailedCycleEnds(c)) =>
            /\ listeners' = listeners
            /\ containers' = containers
            /\ dockerAvailable' = dockerAvailable
       /\ FailedCycleEnds(c) => isLoading' = FALSE]_vars

\* an enumeration failed while listeners and containers were published
C20_Witness ==
  \E c \in Cycles :
    /\ cycle[c].pc = "toast"
    /\ cycle[c].rejected \cap {"tcp", "udp"} # {}
    /\ listeners # <<>>
    /\ containers # <<>>
    /\ dockerAvailable = Some(TRUE)

=============================================================================
